---- MODULE Spec2Model ----
(***************************************************************************)
(* A model of three parts of halo2:                                        *)
(*   - the single-pass floor planner (SingleChipLayouter),                 *)
(*     halo2_common/src/circuit/floor_planner/single_pass.rs;              *)
(*   - the permutation argument's verifier,                                *)
(*     src/plonk/permutation/verifier.rs;                                  *)
(*   - the vanishing argument's prover, src/plonk/vanishing/prover.rs.     *)
(*                                                                         *)
(* Region indices and rows are 0-based as in the source; TLA+ sequences    *)
(* are 1-based, so region i's start row is regions[i + 1].                 *)
(***************************************************************************)
EXTENDS Integers, Sequences, FiniteSets, TLC

\* ------------------------------------------------------------------ bounds

\* assign_region is called at most MaxRegions times on one layouter.
MaxRegions == 3
\* A region's closure performs at most MaxOps region operations.
MaxOps == 2

\* ------------------------------------------------------------------ inputs

AdviceColumns == {"a0"}
\* Fixed columns a region's closure assigns to with assign_fixed.
FixedColumns == {"f0"}
\* The `constants` argument of SingleChipLayouter::new: none, or two columns
\* of which "f0" is the first.
ConstantsChoices == {<< >>, <<"f0", "f1">>}

\* Which constraint-system call of an operation returns an error: none (0),
\* the first one or the second one.
FailChoices == {0, 1, 2}

NoCell == [region_index |-> -1, row_offset |-> -1, column |-> "-"]
MkCell(region_index, row_offset, column) ==
    [region_index |-> region_index, row_offset |-> row_offset, column |-> column]

\* One call of the closure on the region it is handed.
MkOp(op, column, offset, constant, cell) ==
    [op |-> op, column |-> column, offset |-> offset, constant |-> constant, cell |-> cell]

\* One call on the constraint system (the Assignment collaborator); ok is
\* whether the collaborator returned Ok.
MkCall(call, col, row, col2, row2, val, ok) ==
    [call |-> call, col |-> col, row |-> row, col2 |-> col2, row2 |-> row2,
     val |-> val, ok |-> ok]

VARIABLES
    constants,      \* SingleChipLayouter.constants
    regions,        \* SingleChipLayouter.regions: start row of each region
    columns,        \* SingleChipLayouter.columns: first empty row per column
    table_columns,  \* SingleChipLayouter.table_columns
    pc,             \* "idle", "probing" (inside the closure's first run), "aborted"
    shape,          \* the RegionShape of the assign_region call in progress
    prog,           \* the region operations the closure performs, in order
    cs,             \* the calls the current operation has made on the constraint system
    ret,            \* what the last operation returned
    pending,        \* region.constants of the last real pass (constants_to_assign)
    shapes,         \* history: the shape of every placed region, by region index
    flushes,        \* history: the rows written by constant flushing, in order
    table,          \* SimpleTableLayouter.default_and_assigned of assign_table in progress
    runs,           \* history: what the closure of the last assign_region was run against
    proof,          \* permutation verifier: what is left of the transcript to read
    reads,          \* permutation verifier: the transcript reads made so far
    ncommit,        \* permutation verifier: vkey.commitments.len()
    perm,           \* permutation verifier: the protocol state
    pargs,          \* permutation verifier: the arguments of expressions and queries
    terms,          \* permutation verifier: what expressions has yielded
    queries,        \* permutation verifier: what queries has yielded
    domain_n,       \* vanishing prover: params.n, the size of the domain
    written,        \* vanishing prover: the transcript writes made so far
    van,            \* vanishing prover: the protocol state
    quotient,       \* history: the quotient construct has split, and the remainder
    challenge,      \* history: the point x evaluate was called with, as <<x>>
    fold            \* vanishing prover: the expressions construct folds, and the accumulator


layoutVars == <<constants, regions, columns, table_columns, pc, shape, prog, cs, ret,
                pending, shapes, flushes, table, runs>>
permVars == <<proof, reads, ncommit, perm, pargs, terms, queries>>
vanVars == <<domain_n, written, van, quotient, challenge, fold>>
vars == <<layoutVars, permVars, vanVars>>

\* ------------------------------------------------------- region shape probing

\* RegionShape::new(region_index): no column, no row.
NewShape(region_index) ==
    [region_index |-> region_index, columns |-> {}, row_count |-> 0]

Max2(a, b) == IF a >= b THEN a ELSE b

\* The probing capability: an assignment records its column and raises the
\* row count to offset + 1; a constant request leaves the shape alone.
ShapeStep(sh, o) ==
    IF o.op \in {"assign_advice", "assign_fixed", "assign_advice_from_constant",
                 "enable_selector", "assign_advice_from_instance"}
    THEN [sh EXCEPT !.columns = @ \cup {o.column},
                    !.row_count = Max2(@, o.offset + 1)]
    ELSE sh

\* The cell an assignment returns (the same in both passes).
CellOf(region_index, o) == MkCell(region_index, o.offset, o.column)

\* A cell of the previous region that the closure has kept and now constrains.
EarlierCells ==
    IF Len(regions) = 0 THEN {} ELSE {MkCell(Len(regions) - 1, 1, "a0")}

\* The region operations a closure may perform next: an advice cell at offset
\* 2 (a region of 3 rows), a fixed cell in the column that is also the first
\* constants column, an advice cell at offset 1 assigned from the constant 1 (a
\* region of 2 rows), and the constant 2 asked for an earlier region's cell.
RegionOps ==
    {MkOp("assign_advice", c, 2, 0, NoCell) : c \in AdviceColumns}
    \cup {MkOp("assign_fixed", c, 0, 0, NoCell) : c \in FixedColumns}
    \cup {MkOp("assign_advice_from_constant", c, 1, 1, NoCell) : c \in AdviceColumns}
    \cup {MkOp("constrain_constant", "-", 0, 2, cell) : cell \in EarlierCells}

\* A region operation with every argument an operation of RegionLayouter may
\* take: a second cell (constrain_equal) and an instance column and row
\* (assign_advice_from_instance, constrain_instance).
MkAddressOp(op, column, offset, constant, cell, right, instance, row) ==
    [op |-> op, column |-> column, offset |-> offset, constant |-> constant,
     cell |-> cell, right |-> right, instance |-> instance, row |-> row]

Selectors == {"s0"}
InstanceColumns == {"i0"}

\* The operations of a closure that addresses cells in every way the region
\* offers: at offset 1 a selector (in the regions of even index) or a fixed
\* cell (in those of odd index), an advice cell at offset 1 taken from row 1
\* of an instance column (which goes through assign_advice), an earlier
\* region's cell constrained equal to a cell of this region, and the constant
\* 2 asked for an earlier region's cell.
AddressOps ==
    {MkAddressOp("assign_fixed", c, 1, 0, NoCell, NoCell, "-", 0) :
        c \in IF Len(regions) % 2 = 1 THEN FixedColumns ELSE {}}
    \cup {MkAddressOp("enable_selector", c, 1, 0, NoCell, NoCell, "-", 0) :
             c \in IF Len(regions) % 2 = 0 THEN Selectors ELSE {}}
    \cup {MkAddressOp("assign_advice_from_instance", c, 1, 0, NoCell, NoCell, i, 1) :
             c \in AdviceColumns, i \in InstanceColumns}
    \cup {MkAddressOp("constrain_equal", "-", 0, 0, cell, MkCell(Len(regions), 0, c), "-", 0) :
             cell \in EarlierCells, c \in AdviceColumns}
    \cup {MkAddressOp("constrain_constant", "-", 0, 2, cell, NoCell, "-", 0) :
             cell \in EarlierCells}

\* ------------------------------------------------------- region placement

\* A lookup that takes every column for unused.
FirstFreeAlwaysZero(cols, c) == 0

\* self.columns.get(column).cloned().unwrap_or(0)
FirstFree(cols, c) == IF c \in DOMAIN cols THEN cols[c] ELSE 0

\* A fold of cmp::min in the place of cmp::max.
RegionStartMin(cols, shape_columns) ==
    LET S == {IF c \in DOMAIN cols THEN cols[c] ELSE 0 : c \in shape_columns}
    IN  IF S = {} THEN 0 ELSE CHOOSE m \in S : \A x \in S : m <= x

\* region_start: the fold of cmp::max over the shape's columns, from 0.
RegionStart(cols, shape_columns) ==
    LET S == {FirstFree(cols, c) : c \in shape_columns} \cup {0}
    IN  CHOOSE m \in S : \A x \in S : x <= m

\* An insert of the shape's row count alone, region_start forgotten.
InsertRowCount(cols, sh, region_start) ==
    [c \in DOMAIN cols \cup sh.columns |->
        IF c \in sh.columns THEN sh.row_count ELSE cols[c]]

\* An insert of region_start alone, the shape's row count forgotten.
InsertColumnsAtStart(cols, sh, region_start) ==
    [c \in DOMAIN cols \cup sh.columns |->
        IF c \in sh.columns THEN region_start ELSE cols[c]]

\* The column usage after `self.columns.insert(column, region_start + row_count)`
\* for every column of the shape.
InsertColumns(cols, sh, region_start) ==
    [c \in DOMAIN cols \cup sh.columns |->
        IF c \in sh.columns THEN region_start + sh.row_count ELSE cols[c]]

\* Every offset taken from the start of the region being assigned.
AbsoluteRowOfCurrent(regs, region_index, offset) == regs[Len(regs)] + offset

\* `*self.layouter.regions[*region_index] + offset`
AbsoluteRow(regs, region_index, offset) == regs[region_index + 1] + offset


\* ------------------------------------------------------- the real pass

\* The state of the closure's second run: the calls made on the constraint
\* system, region.constants, whether every call so far returned Ok, and the
\* number of fallible constraint-system calls made.
NewRun == [cs |-> << >>, constants |-> << >>, ok |-> TRUE, n |-> 0]

\* A constant request: the pair pushed by constrain_constant.
MkRequest(constant, cell) == [constant |-> constant, cell |-> cell]

\* One region operation on SingleChipLayouterRegion; `fail` is the number of
\* the constraint-system call that returns an error (0: none does).
RealStep(o, regs, region_index, fail, run) ==
    LET row == AbsoluteRow(regs, region_index, o.offset)
        n1  == run.n + 1
        ok1 == n1 # fail
    IN  CASE o.op = "assign_advice" ->
               [run EXCEPT !.cs = Append(@, MkCall("assign_advice", o.column, row, "-", -1, 0, ok1)),
                           !.n = n1, !.ok = ok1]
          [] o.op = "assign_fixed" ->
               [run EXCEPT !.cs = Append(@, MkCall("assign_fixed", o.column, row, "-", -1, 0, ok1)),
                           !.n = n1, !.ok = ok1]
          [] o.op = "assign_advice_from_constant" ->
               [run EXCEPT !.cs = Append(@, MkCall("assign_advice", o.column, row, "-", -1,
                                                   o.constant, ok1)),
                           !.n = n1, !.ok = ok1,
                           !.constants = IF ok1
                                         THEN Append(@, MkRequest(o.constant,
                                                                  CellOf(region_index, o)))
                                         ELSE @]
          [] o.op = "constrain_constant" ->
               [run EXCEPT !.constants = Append(@, MkRequest(o.constant, o.cell))]
          [] o.op = "enable_selector" ->
               [run EXCEPT !.cs = Append(@, MkCall("enable_selector", o.column, row, "-", -1,
                                                   0, ok1)),
                           !.n = n1, !.ok = ok1]
          [] o.op = "constrain_equal" ->
               [run EXCEPT !.cs = Append(@,
                                    MkCall("copy", o.cell.column,
                                           AbsoluteRow(regs, o.cell.region_index,
                                                       o.cell.row_offset),
                                           o.right.column,
                                           AbsoluteRow(regs, o.right.region_index,
                                                       o.right.row_offset),
                                           0, ok1)),
                           !.n = n1, !.ok = ok1]
          [] o.op = "assign_advice_from_instance" ->
               LET cell  == CellOf(region_index, o)
                   okAdv == (run.n + 2) # fail
                   okCpy == (run.n + 3) # fail
                   query == MkCall("query_instance", o.instance, o.row, "-", -1, 0, ok1)
                   adv   == MkCall("assign_advice", o.column, row, "-", -1, 0, okAdv)
                   cpy   == MkCall("copy", cell.column,
                                   AbsoluteRow(regs, cell.region_index, cell.row_offset),
                                   o.instance, o.row, 0, okCpy)
               IN  IF ~ok1
                   THEN [run EXCEPT !.cs = Append(@, query), !.n = n1, !.ok = FALSE]
                   ELSE IF ~okAdv
                   THEN [run EXCEPT !.cs = @ \o <<query, adv>>, !.n = @ + 2, !.ok = FALSE]
                   ELSE [run EXCEPT !.cs = @ \o <<query, adv, cpy>>, !.n = @ + 3,
                                    !.ok = okCpy]

\* The closure's second run: its operations in order, stopping at the first
\* error, which the closure returns.
RECURSIVE RunReal(_, _, _, _, _)
RunReal(ops, regs, region_index, fail, run) ==
    IF ops = << >> \/ ~run.ok
    THEN run
    ELSE RunReal(Tail(ops), regs, region_index, fail,
                 RealStep(Head(ops), regs, region_index, fail, run))

\* ------------------------------------------------------- constant flushing

\* Every constant written to the first row of the column.
ConstantRowZero(next_constant_row) == 0

\* The row the next constant goes to: *next_constant_row of the entry of the
\* first constants column.
ConstantRow(next_constant_row) == next_constant_row

\* The column constants are flushed into.
ConstantsColumn(consts) == consts[1]

\* The loop over constants_to_assign: run = [cs, ok, n, next, rows], where next
\* is *next_constant_row and rows are the rows assign_fixed was called on.
RECURSIVE Flush(_, _, _, _, _)
Flush(reqs, col, regs, fail, run) ==
    IF reqs = << >> \/ ~run.ok
    THEN run
    ELSE LET req   == Head(reqs)
             row   == ConstantRow(run.next)
             okFix == (run.n + 1) # fail
             fix   == MkCall("assign_fixed", col, row, "-", -1, req.constant, okFix)
             okCpy == (run.n + 2) # fail
             cpy   == MkCall("copy", col, row, req.cell.column,
                             AbsoluteRow(regs, req.cell.region_index, req.cell.row_offset),
                             0, okCpy)
         IN  IF ~okFix
             THEN [run EXCEPT !.cs = Append(@, fix), !.n = @ + 1, !.ok = FALSE]
             ELSE IF ~okCpy
             THEN [run EXCEPT !.cs = @ \o <<fix, cpy>>, !.n = @ + 2, !.ok = FALSE,
                              !.rows = Append(@, row)]
             ELSE Flush(Tail(reqs), col, regs, fail,
                        [run EXCEPT !.cs = @ \o <<fix, cpy>>, !.n = @ + 2,
                                    !.next = @ + 1, !.rows = Append(@, row)])


NewFlush(n, next) == [cs |-> << >>, ok |-> TRUE, n |-> n, next |-> next, rows |-> << >>]

\* `self.columns.entry(column).or_default()`: the entry exists afterwards.
EntryOrDefault(cols, c) ==
    [x \in DOMAIN cols \cup {c} |-> IF x \in DOMAIN cols THEN cols[x] ELSE 0]

\* The increments made on a copy of the entry: the entry keeps its old value.
KeepOldConstantRow(cols, c, next_constant_row) ==
    [x \in DOMAIN cols \cup {c} |-> IF x \in DOMAIN cols THEN cols[x] ELSE 0]

\* `*next_constant_row += 1` acts on the entry in place: after the loop the
\* entry of the constants column holds the last value of next_constant_row.
StoreNextConstantRow(cols, c, next_constant_row) ==
    [EntryOrDefault(cols, c) EXCEPT ![c] = next_constant_row]

\* The check of constants_to_assign left out: the requests are dropped.
NoConstantsResultDropped(constants_to_assign) == "Ok"

\* `if self.constants.is_empty()`: an error when a constant was asked for,
\* nothing to do otherwise.
NoConstantsResult(constants_to_assign) ==
    IF constants_to_assign # << >> THEN "NotEnoughColumnsForConstants" ELSE "Ok"

EnterRegion == MkCall("enter_region", "-", -1, "-", -1, 0, TRUE)
ExitRegion == MkCall("exit_region", "-", -1, "-", -1, 0, TRUE)

\* The constants flushed before the region is left.
RegionCallsFlushFirst(real, flushed) ==
    <<EnterRegion>> \o real \o flushed \o <<ExitRegion>>

\* The calls of an assign_region whose second closure run returns Ok:
\* enter_region, the calls of the run, exit_region, the calls of the flush.
RegionCalls(real, flushed) == <<EnterRegion>> \o real \o <<ExitRegion>> \o flushed

\* ------------------------------------------------------- assign_region

InitLayout ==
    /\ constants \in ConstantsChoices
    /\ regions = << >>
    /\ columns = [c \in {} |-> 0]
    /\ table_columns = << >>
    /\ pc = "idle"
    /\ shape = NewShape(0)
    /\ prog = << >>
    /\ cs = << >>
    /\ ret = "none"
    /\ pending = << >>
    /\ shapes = << >>
    /\ flushes = << >>
    /\ table = [c \in {} |-> 0]
    /\ runs = << >>

\* assign_region is entered: a fresh RegionShape is handed to the closure,
\* which starts its first run.
BeginAssignRegion ==
    /\ pc = "idle"
    /\ Len(regions) < MaxRegions
    /\ pc' = "probing"
    /\ shape' = NewShape(Len(regions))
    /\ prog' = << >>
    /\ cs' = << >>
    /\ ret' = "none"
    /\ pending' = << >>
    /\ runs' = <<"shape">>
    /\ UNCHANGED <<constants, regions, columns, table_columns, shapes, flushes, table>>
    /\ UNCHANGED <<permVars, vanVars>>

\* The closure, in its first run, performs one region operation on the shape.
ShapeOp(o) ==
    /\ pc = "probing"
    /\ Len(prog) < MaxOps
    /\ shape' = ShapeStep(shape, o)
    /\ prog' = Append(prog, o)
    /\ UNCHANGED <<constants, regions, columns, table_columns, pc, cs, ret, pending,
                   shapes, flushes, table>>
    /\ UNCHANGED <<runs, permVars, vanVars>>

\* The error of the first run returned only after the region has been placed.
ProbeFailAfterPlacement ==
    /\ pc = "probing"
    /\ pc' = "aborted"
    /\ ret' = "Err(closure)"
    /\ regions' = Append(regions, RegionStart(columns, shape.columns))
    /\ columns' = InsertColumns(columns, shape, RegionStart(columns, shape.columns))
    /\ UNCHANGED <<constants, table_columns, shape, prog, cs, pending, shapes, flushes,
                   table>>
    /\ UNCHANGED <<runs, permVars, vanVars>>

\* The closure's first run returns an error: `assignment(region.into())?`.
ProbeFail ==
    /\ pc = "probing"
    /\ pc' = "aborted"
    /\ ret' = "Err(closure)"
    /\ UNCHANGED <<constants, regions, columns, table_columns, shape, prog, cs, pending,
                   shapes, flushes, table>>
    /\ UNCHANGED <<runs, permVars, vanVars>>

\* The number of fallible constraint-system calls of the rest of assign_region
\* when none of them fails.
FallibleCalls(regs) ==
    LET real == RunReal(prog, regs, Len(regions), 0, NewRun)
    IN  real.n + (IF constants = << >> THEN 0 ELSE 2 * Len(real.constants))

\* What the rest of assign_region does once the closure's first run has
\* returned Ok: the region is placed, the closure runs again on the real region,
\* and the constants it asked for are flushed. `fail` is the number of the
\* constraint-system call that returns an error (0: none does).
FinishRegion(fail) ==
    LET region_index == Len(regions)
        region_start == RegionStart(columns, shape.columns)
        regs  == Append(regions, region_start)
        cols1 == InsertColumns(columns, shape, region_start)
        real  == RunReal(prog, regs, region_index, fail, NewRun)
    IN  /\ regions' = regs
        /\ shapes' = Append(shapes, shape)
        /\ runs' = Append(runs, "region")
        /\ IF ~real.ok
           THEN \* `assignment(region.into())?` of the second run
                /\ columns' = cols1
                /\ cs' = <<EnterRegion>> \o real.cs
                /\ pending' = << >>
                /\ flushes' = flushes
                /\ ret' = "Err(cs)"
                /\ pc' = "aborted"
           ELSE IF constants = << >>
           THEN /\ columns' = cols1
                /\ cs' = RegionCalls(real.cs, << >>)
                /\ pending' = real.constants
                /\ flushes' = flushes
                /\ ret' = NoConstantsResult(real.constants)
                /\ pc' = IF ret' = "Ok" THEN "idle" ELSE "aborted"
           ELSE LET col == ConstantsColumn(constants)
                    fl  == Flush(real.constants, col, regs, fail,
                                 NewFlush(real.n, FirstFree(cols1, col)))
                IN  /\ columns' = StoreNextConstantRow(cols1, col, fl.next)
                    /\ cs' = RegionCalls(real.cs, fl.cs)
                    /\ pending' = real.constants
                    /\ flushes' = flushes \o
                          [i \in 1 .. Len(fl.rows) |->
                              [region |-> region_index, row |-> fl.rows[i]]]
                    /\ IF fl.ok
                       THEN ret' = "Ok" /\ pc' = "idle"
                       ELSE ret' = "Err(cs)" /\ pc' = "aborted"

\* The closure's first run returns Ok and assign_region runs to its end; a
\* constraint-system call may fail.
AssignRegion ==
    /\ pc = "probing"
    /\ \E fail \in FailChoices :
          /\ fail <= FallibleCalls(Append(regions, 0))
          /\ FinishRegion(fail)
    /\ UNCHANGED <<constants, table_columns, shape, prog, table>>
    /\ UNCHANGED <<permVars, vanVars>>

\* SingleChipLayouter::constrain_instance, between two assign_region calls,
\* on a cell of a region that has been placed.
ConstrainInstance(cell, instance, row, fail) ==
    /\ pc = "idle"
    /\ cell.region_index < Len(regions)
    /\ prog' = <<MkAddressOp("constrain_instance", "-", 0, 0, cell, NoCell, instance, row)>>
    /\ cs' = <<MkCall("copy", cell.column,
                      AbsoluteRow(regions, cell.region_index, cell.row_offset),
                      instance, row, 0, fail = 0)>>
    /\ ret' = IF fail = 0 THEN "Ok" ELSE "Err(cs)"
    /\ pc' = IF fail = 0 THEN "idle" ELSE "aborted"
    /\ UNCHANGED <<constants, regions, columns, table_columns, shape, pending, shapes,
                   flushes, table>>
    /\ UNCHANGED <<runs, permVars, vanVars>>

\* The cells constrain_instance is called on: one of each placed region.
PlacedCells == {MkCell(i, 1, c) : i \in 0 .. Len(regions) - 1, c \in AdviceColumns}

NextAddress ==
    \/ BeginAssignRegion
    \/ \E o \in AddressOps : ShapeOp(o)
    \/ AssignRegion
    \/ \E cell \in PlacedCells, i \in InstanceColumns, fail \in {0, 1} :
          ConstrainInstance(cell, i, 1, fail)

NextLayout ==
    \/ BeginAssignRegion
    \/ \E o \in RegionOps : ShapeOp(o)
    \/ ProbeFail
    \/ AssignRegion

\* ------------------------------------------------------- assign_table

TableColumns == {"t0", "t1"}
\* assign_cell uses row offsets 0 .. MaxTableOffset.
MaxTableOffset == 2
\* The values a table's closure assigns.
TableValues == {0, 7}
\* Option<V>: None is the empty sequence, Some(v) the sequence <<v>>.
None == << >>
Some(v) == <<v>>

\* SimpleTableLayouter::assign_cell on a column no earlier table has used: the
\* value at offset 0 becomes the column's default, and the offset is marked as
\* assigned (the rows below it that were never assigned stay unassigned).
TableAssign(t, column, offset, value) ==
    LET old  == IF column \in DOMAIN t THEN t[column]
                ELSE [default |-> None, assigned |-> << >>]
        len  == Max2(Len(old.assigned), offset + 1)
        bits == [i \in 1 .. len |->
                    (i = offset + 1) \/ (i <= Len(old.assigned) /\ old.assigned[i])]
        new  == [default |-> IF offset = 0 THEN Some(value) ELSE old.default, assigned |-> bits]
    IN  [c \in DOMAIN t \cup {column} |-> IF c = column THEN new ELSE t[c]]

\* compute_table_lengths succeeds: every column has a default and at least one
\* cell, every cell up to its length is assigned, and all lengths are equal.
TableLengthsOk(t) ==
    /\ \A c \in DOMAIN t :
          /\ t[c].default # None
          /\ t[c].assigned # << >>
          /\ \A i \in 1 .. Len(t[c].assigned) : t[c].assigned[i]
    /\ \A c, d \in DOMAIN t : Len(t[c].assigned) = Len(t[d].assigned)

\* The length compute_table_lengths returns (0 for a table without columns).
FirstUnused(t) ==
    IF DOMAIN t = {} THEN 0
    ELSE LET c == CHOOSE x \in DOMAIN t : TRUE IN Len(t[c].assigned)

Range(seq) == {seq[i] : i \in 1 .. Len(seq)}

\* The orders in which a HashMap over the columns S may be iterated.
Orders(S) ==
    {q \in [1 .. Cardinality(S) -> S] : \A i, j \in 1 .. Cardinality(S) : q[i] = q[j] => i = j}

\* `self.table_columns.push(column)` for every column of the table.
RecordNoColumn(tcs, order) == tcs
RecordTableColumns(tcs, order) == tcs \o order

FillFromRow(col, row, default, ok) == MkCall("fill_from_row", col, row, "-", -1, default, ok)

\* The columns filled from row 0 on, whatever the length of the table.
FillsFromRowZero(t, order, first_unused, fail) ==
    LET n == IF fail = 0 THEN Len(order) ELSE fail
    IN  [i \in 1 .. n |-> FillFromRow(order[i], 0, t[order[i]].default[1], i # fail)]

\* The fill_from_row calls of assign_table, in the order `order` of the map,
\* stopping after the call number `fail` (which returns an error); the default
\* is `default_val.unwrap()`.
Fills(t, order, first_unused, fail) ==
    LET n == IF fail = 0 THEN Len(order) ELSE fail
    IN  [i \in 1 .. n |-> FillFromRow(order[i], first_unused, t[order[i]].default[1], i # fail)]

\* assign_table is entered: enter_region, and a fresh SimpleTableLayouter.
BeginAssignTable ==
    /\ pc = "idle"
    /\ pc' = "in_table"
    /\ table' = [c \in {} |-> 0]
    /\ cs' = <<EnterRegion>>
    /\ ret' = "none"
    /\ UNCHANGED <<constants, regions, columns, table_columns, shape, prog, pending,
                   shapes, flushes>>
    /\ UNCHANGED <<runs, permVars, vanVars>>

\* The closure assigns one table cell; it assigns offset 0 of a column, whose
\* value is the column's default, at most once.  A column recorded by an earlier
\* table is refused; the closure returns the error and so does assign_table.
AssignCell(column, offset, value) ==
    /\ pc = "in_table"
    /\ ~(offset = 0 /\ column \in DOMAIN table /\ table[column].default # None)
    /\ IF column \in Range(table_columns)
       THEN /\ pc' = "aborted"
            /\ ret' = "Err(TableError::UsedColumn)"
            /\ table' = table
       ELSE /\ pc' = pc
            /\ ret' = ret
            /\ table' = TableAssign(table, column, offset, value)
    /\ UNCHANGED <<constants, regions, columns, table_columns, shape, prog, cs, pending,
                   shapes, flushes>>
    /\ UNCHANGED <<runs, permVars, vanVars>>

\* The closure returns an error of its own: `assignment(table.into())?`.
TableClosureFails ==
    /\ pc = "in_table"
    /\ pc' = "aborted"
    /\ ret' = "Err(closure)"
    /\ UNCHANGED <<constants, regions, columns, table_columns, shape, prog, cs, pending,
                   shapes, flushes, table>>
    /\ UNCHANGED <<runs, permVars, vanVars>>

\* What assign_table does once the closure has returned Ok; `order` is the
\* iteration order of default_and_assigned and `fail` the number of the
\* fill_from_row call that returns an error (0: none does).
FinishTable(order, fail) ==
    IF ~TableLengthsOk(table)
    THEN \* `compute_table_lengths(&default_and_assigned)?`
         /\ cs' = Append(cs, ExitRegion)
         /\ table_columns' = table_columns
         /\ ret' = "Err(TableError)"
         /\ pc' = "aborted"
    ELSE /\ cs' = Append(cs, ExitRegion) \o Fills(table, order, FirstUnused(table), fail)
         /\ table_columns' = RecordTableColumns(table_columns, order)
         /\ IF fail = 0
            THEN ret' = "Ok" /\ pc' = "idle"
            ELSE ret' = "Err(cs)" /\ pc' = "aborted"

\* The closure returns Ok and assign_table runs to its end.
AssignTable ==
    /\ pc = "in_table"
    /\ \E order \in Orders(DOMAIN table) :
          \E fail \in FailChoices :
             /\ fail <= Len(order)
             /\ FinishTable(order, fail)
    /\ UNCHANGED <<constants, regions, columns, shape, prog, pending, shapes, flushes,
                   table>>
    /\ UNCHANGED <<runs, permVars, vanVars>>

NextTable ==
    \/ BeginAssignTable
    \/ \E c \in TableColumns, o \in 0 .. MaxTableOffset, v \in TableValues : AssignCell(c, o, v)
    \/ TableClosureFails
    \/ AssignTable

\* ------------------------------------------------------- permutation verifier

\* The proof holds at most MaxProof items.
MaxProof == 5
\* The permutation verifying key holds at most MaxCommitments commitments.
MaxCommitments == 2

FieldElems == {0, 1, 2}
Modulus == Cardinality(FieldElems)
\* C::Scalar::DELTA, and the generator omega of the domain of two rows.
DELTA == 2
OMEGA == 2
\* The points a proof may hold.
Points == {1}

Point(v) == [kind |-> "point", val |-> v]
Scalar(v) == [kind |-> "scalar", val |-> v]
ProofItems == {Point(v) : v \in Points} \cup {Scalar(v) : v \in FieldElems}

RECURSIVE SeqsUpTo(_, _)
\* The sequences over S of length at most n.
SeqsUpTo(S, n) ==
    IF n = 0 THEN {<< >>}
    ELSE LET shorter == SeqsUpTo(S, n - 1)
         IN  shorter \cup {Append(q, x) : q \in {r \in shorter : Len(r) = n - 1}, x \in S}

\* TranscriptRead::read_point / read_scalar succeed when the next item of the
\* proof is a point / a scalar.
CanRead(tr, kind) == tr # << >> /\ Head(tr).kind = kind

MkRead(kind, ok) == [kind |-> kind, ok |-> ok]

\* The protocol states of the verifier.  The Argument itself, before any read:
PermArgument ==
    [state |-> "Argument", permutation_product_commitment |-> 0,
     permutation_product_eval |-> 0, permutation_product_next_eval |-> 0,
     permutation_evals |-> << >>]
PermCommitted(c) ==
    [PermArgument EXCEPT !.state = "Committed", !.permutation_product_commitment = c]
PermEvaluated(c, eval, next_eval, evals) ==
    [state |-> "Evaluated", permutation_product_commitment |-> c,
     permutation_product_eval |-> eval, permutation_product_next_eval |-> next_eval,
     permutation_evals |-> evals]
\* Err(Error::TranscriptError): no protocol state is produced.
PermError == [PermArgument EXCEPT !.state = "TranscriptError"]

\* expressions and queries have not been called: no arguments, nothing yielded.
NoArgs ==
    [columns |-> << >>, commitments |-> << >>,
     advice_evals |-> << >>, fixed_evals |-> << >>, instance_evals |-> << >>,
     l_0 |-> 0, l_last |-> 0, l_cover |-> 0, beta |-> 0, gamma |-> 0, x |-> 0]
NotCalled == pargs = NoArgs /\ terms = << >> /\ queries = << >>

InitPerm ==
    /\ proof \in SeqsUpTo(ProofItems, MaxProof)
    /\ ncommit \in 0 .. MaxCommitments
    /\ reads = << >>
    /\ perm = PermArgument
    /\ NotCalled

\* Argument::read_product_commitment
ReadProductCommitment ==
    /\ perm.state = "Argument"
    /\ IF CanRead(proof, "point")
       THEN /\ perm' = PermCommitted(Head(proof).val)
            /\ proof' = Tail(proof)
            /\ reads' = Append(reads, MkRead("point", TRUE))
       ELSE /\ perm' = PermError
            /\ proof' = proof
            /\ reads' = Append(reads, MkRead("point", FALSE))
    /\ UNCHANGED <<ncommit, pargs, terms, queries, layoutVars, vanVars>>

RECURSIVE ReadScalars(_, _, _)
\* `need` calls of read_scalar in a row, stopping at the first that fails:
\* got = [vals, rest, reads, ok].
ReadScalars(need, tr, got) ==
    IF need = 0 THEN [got EXCEPT !.rest = tr]
    ELSE IF CanRead(tr, "scalar")
    THEN ReadScalars(need - 1, Tail(tr),
                     [got EXCEPT !.vals = Append(@, Head(tr).val),
                                 !.reads = Append(@, MkRead("scalar", TRUE))])
    ELSE [got EXCEPT !.rest = tr, !.ok = FALSE,
                     !.reads = Append(@, MkRead("scalar", FALSE))]

\* The two product evaluations taken in the other order.
EvaluatedFromSwapped(c, vals) ==
    PermEvaluated(c, vals[2], vals[1], SubSeq(vals, 3, Len(vals)))

\* The Evaluated that Committed::evaluate builds from the scalars it has read:
\* the product evaluation, the next-row product evaluation, the column
\* evaluations.
EvaluatedFrom(c, vals) ==
    PermEvaluated(c, vals[1], vals[2], SubSeq(vals, 3, Len(vals)))

\* The number of scalars Committed::evaluate reads.
ScalarsToRead(n) == 2 + n

\* Committed::evaluate
Evaluate ==
    /\ perm.state = "Committed"
    /\ LET got == ReadScalars(ScalarsToRead(ncommit), proof,
                              [vals |-> << >>, rest |-> proof, reads |-> << >>, ok |-> TRUE])
       IN  /\ reads' = reads \o got.reads
           /\ proof' = got.rest
           /\ perm' = IF got.ok
                      THEN EvaluatedFrom(perm.permutation_product_commitment, got.vals)
                      ELSE PermError
    /\ UNCHANGED <<ncommit, pargs, terms, queries, layoutVars, vanVars>>

NextPerm ==
    \/ ReadProductCommitment
    \/ Evaluate

\* ------------------------------------------- permutation verifier: the identity

Add(a, b) == (a + b) % Modulus
Mul(a, b) == (a * b) % Modulus

RECURSIVE Pow(_, _)
Pow(a, e) == IF e = 0 THEN 1 ELSE Mul(a, Pow(a, e - 1))

Sub(a, b) == (a - b + Modulus) % Modulus

\* A column of the argument: its type, and the place of its query at the
\* current row in the list of evaluations of that type.
PermColumn(column_type, index) == [column_type |-> column_type, index |-> index]
PermColumns == {PermColumn(t, 1) : t \in {"Advice", "Fixed", "Instance"}}

\* The evaluations of the advice, fixed and instance queries at x.
EvalLists ==
    {[advice_evals |-> <<0>>, fixed_evals |-> <<1>>, instance_evals |-> <<2>>],
     [advice_evals |-> <<2>>, fixed_evals |-> <<0>>, instance_evals |-> <<1>>]}

\* The values of l_0, l_last and l_cover at x.
LagrangeChoices ==
    {<<l0, 0, 0>> : l0 \in FieldElems} \cup {<<0, 1, 1>>, <<1, 2, 0>>}

\* The challenges beta and gamma.
BetaChoices == {1, 2}
GammaChoices == FieldElems

\* The commitments of the permutation verifying key, one per column, each a
\* point of its own.
KeyCommitments(k) == [i \in 1 .. k |-> i + 1]

\* `match column.column_type()`: the evaluation of the column at the current
\* row, from the list of the column's type.
ValueOf(column, a) ==
    CASE column.column_type = "Advice" -> a.advice_evals[column.index]
      [] column.column_type = "Fixed" -> a.fixed_evals[column.index]
      [] column.column_type = "Instance" -> a.instance_evals[column.index]

RECURSIVE LeftProductWithoutBeta(_, _, _, _)
LeftProductWithoutBeta(a, permutation_evals, i, left) ==
    IF i > Len(a.columns) \/ i > Len(permutation_evals) THEN left
    ELSE LeftProductWithoutBeta(a, permutation_evals, i + 1,
                     Mul(left, Add(Add(ValueOf(a.columns[i], a), permutation_evals[i]),
                                   a.gamma)))

RECURSIVE LeftProduct(_, _, _, _)
\* `left *= eval + beta * permutation_eval + gamma` over the columns zipped with
\* permutation_evals, from the i-th pair on.
LeftProduct(a, permutation_evals, i, left) ==
    IF i > Len(a.columns) \/ i > Len(permutation_evals) THEN left
    ELSE LeftProduct(a, permutation_evals, i + 1,
                     Mul(left, Add(Add(ValueOf(a.columns[i], a),
                                       Mul(a.beta, permutation_evals[i])), a.gamma)))

RECURSIVE RightProductSameDelta(_, _, _, _)
\* The loop without `current_delta *= DELTA`.
RightProductSameDelta(a, i, right, current_delta) ==
    IF i > Len(a.columns) THEN right
    ELSE RightProductSameDelta(a, i + 1,
                      Mul(right, Add(Add(ValueOf(a.columns[i], a), current_delta), a.gamma)),
                      current_delta)

RECURSIVE RightProduct(_, _, _, _)
\* `right *= eval + current_delta + gamma; current_delta *= DELTA` over the
\* columns, from the i-th on.
RightProduct(a, i, right, current_delta) ==
    IF i > Len(a.columns) THEN right
    ELSE RightProduct(a, i + 1,
                      Mul(right, Add(Add(ValueOf(a.columns[i], a), current_delta), a.gamma)),
                      Mul(current_delta, DELTA))

\* Evaluated::expressions: the three terms, in the order of the chain.
Expressions(ev, a) ==
    LET left  == LeftProduct(a, ev.permutation_evals, 1, ev.permutation_product_next_eval)
        right == RightProduct(a, 1, ev.permutation_product_eval, Mul(a.beta, a.x))
    IN  <<Mul(a.l_0, Sub(1, ev.permutation_product_eval)),
          Mul(a.l_last, Sub(1, ev.permutation_product_eval)),
          Mul(Sub(left, right), Sub(1, Add(a.l_cover, a.l_last)))>>

\* VerifierQuery::new_commitment(commitment, point, eval)
MkQuery(commitment, point, eval) == [commitment |-> commitment, point |-> point, eval |-> eval]

\* vk.domain.rotate_omega(x, Rotation::next())
RotateOmegaNext(x) == Mul(x, OMEGA)

\* The chain with the opening at the next row first.
QueriesNextFirst(ev, a) ==
    LET x_next == RotateOmegaNext(a.x)
        k == IF Len(a.commitments) <= Len(ev.permutation_evals)
             THEN Len(a.commitments) ELSE Len(ev.permutation_evals)
    IN  <<MkQuery(ev.permutation_product_commitment, x_next,
                  ev.permutation_product_next_eval),
          MkQuery(ev.permutation_product_commitment, a.x, ev.permutation_product_eval)>>
        \o [i \in 1 .. k |-> MkQuery(a.commitments[i], a.x, ev.permutation_evals[i])]

\* Evaluated::queries: the chain of the two openings of the product commitment
\* and of the commitments of the key zipped with permutation_evals.
Queries(ev, a) ==
    LET x_next == RotateOmegaNext(a.x)
        k == IF Len(a.commitments) <= Len(ev.permutation_evals)
             THEN Len(a.commitments) ELSE Len(ev.permutation_evals)
    IN  <<MkQuery(ev.permutation_product_commitment, a.x, ev.permutation_product_eval),
          MkQuery(ev.permutation_product_commitment, x_next,
                  ev.permutation_product_next_eval)>>
        \o [i \in 1 .. k |-> MkQuery(a.commitments[i], a.x, ev.permutation_evals[i])]

\* The verifier has evaluated: an Evaluated over k columns, with the arguments
\* expressions and queries are going to be called with.
InitExpressions ==
    /\ proof = << >>
    /\ ncommit \in 0 .. MaxCommitments
    /\ reads = <<MkRead("point", TRUE)>> \o [i \in 1 .. 2 + ncommit |-> MkRead("scalar", TRUE)]
    /\ \E c \in Points, eval \in FieldElems, next_eval \in FieldElems :
          \E evals \in [1 .. ncommit -> FieldElems] :
             perm = PermEvaluated(c, eval, next_eval, evals)
    /\ \E cols \in [1 .. ncommit -> PermColumns], e \in EvalLists, l \in LagrangeChoices,
          beta \in BetaChoices, gamma \in GammaChoices, x \in FieldElems :
          pargs = [columns |-> cols, commitments |-> KeyCommitments(ncommit),
                   advice_evals |-> e.advice_evals, fixed_evals |-> e.fixed_evals,
                   instance_evals |-> e.instance_evals,
                   l_0 |-> l[1], l_last |-> l[2], l_cover |-> l[3],
                   beta |-> beta, gamma |-> gamma, x |-> x]
    /\ terms = << >>
    /\ queries = << >>

\* Evaluated::expressions is called and its iterator run to the end.
PermExpressions ==
    /\ perm.state = "Evaluated"
    /\ terms = << >>
    /\ terms' = Expressions(perm, pargs)
    /\ UNCHANGED <<proof, reads, ncommit, perm, pargs, queries, layoutVars, vanVars>>

\* Evaluated::queries is called and its iterator run to the end.
PermQueries ==
    /\ perm.state = "Evaluated"
    /\ terms # << >>
    /\ queries = << >>
    /\ queries' = Queries(perm, pargs)
    /\ UNCHANGED <<proof, reads, ncommit, perm, pargs, terms, layoutVars, vanVars>>

NextExpressions ==
    \/ PermExpressions
    \/ PermQueries

\* ----------------------------------- permutation prover: a domain of two rows
\* The prover mirrors the verifier's identity: over the rows omega^0, omega^1
\* of one column it interpolates the column, the permutation polynomial and
\* the grand product, and evaluates them at x. The domain has no blinding
\* rows, so l_last and l_cover are zero.

Domain == <<Pow(OMEGA, 0), Pow(OMEGA, 1)>>
InDomain(x) == \E j \in 1 .. Len(Domain) : Domain[j] = x

Inv(a) == CHOOSE b \in FieldElems : Mul(a, b) = 1

\* The Lagrange basis polynomial of row j, at x.
LagrangeAt(j, x) ==
    LET o == Domain[3 - j]
    IN  Mul(Sub(x, o), Inv(Sub(Domain[j], o)))

\* The polynomial of degree below two with the values f on the rows, at x.
Interpolate(f, x) == Add(Mul(f[1], LagrangeAt(1, x)), Mul(f[2], LagrangeAt(2, x)))

\* The permutations of the two cells of the column: row j is copied from
\* row sigma[j].
Sigmas == {<<1, 2>>, <<2, 1>>}

\* Every cell equals its copy target.
SatisfiesCopies(w, sigma) == \A j \in 1 .. 2 : w[sigma[j]] = w[j]

\* The factors of the grand product on row j.
ProductNumerator(w, beta, gamma, j) == Add(Add(w[j], Mul(beta, Domain[j])), gamma)
ProductDenominator(w, sigma, beta, gamma, j) ==
    Add(Add(w[j], Mul(beta, Domain[sigma[j]])), gamma)

\* The grand product on the rows: 1 on the first row, then the running
\* quotient.
GrandProduct(w, sigma, beta, gamma) ==
    <<1, Mul(ProductNumerator(w, beta, gamma, 1),
             Inv(ProductDenominator(w, sigma, beta, gamma, 1)))>>

\* What an honest prover sends for the witness w under the copies sigma.
ProverEvaluations(w, sigma, beta, gamma, x) ==
    LET z == GrandProduct(w, sigma, beta, gamma)
    IN  [value |-> Interpolate(w, x),
         permutation_eval |-> Interpolate([j \in 1 .. 2 |-> Domain[sigma[j]]], x),
         permutation_product_eval |-> Interpolate(z, x),
         permutation_product_next_eval |-> Interpolate(z, RotateOmegaNext(x)),
         l_0 |-> LagrangeAt(1, x)]

\* The verifier holds the evaluations of an honest prover for a witness that
\* satisfies its copy constraints.
SatisfyingWitness ==
    /\ perm.state = "Evaluated"
    /\ Len(pargs.columns) = 1
    /\ pargs.l_last = 0 /\ pargs.l_cover = 0
    /\ \E w \in [1 .. 2 -> FieldElems], sigma \in Sigmas :
          /\ SatisfiesCopies(w, sigma)
          /\ \A j \in 1 .. 2 : ProductDenominator(w, sigma, pargs.beta, pargs.gamma, j) # 0
          /\ LET pe == ProverEvaluations(w, sigma, pargs.beta, pargs.gamma, pargs.x)
             IN  /\ ValueOf(pargs.columns[1], pargs) = pe.value
                 /\ perm.permutation_evals = <<pe.permutation_eval>>
                 /\ perm.permutation_product_eval = pe.permutation_product_eval
                 /\ perm.permutation_product_next_eval = pe.permutation_product_next_eval
                 /\ pargs.l_0 = pe.l_0

\* The identity witness: every permutation evaluation is delta^i * x and the
\* grand product is one at x and at x * omega.
IdentityWitness ==
    /\ perm.state = "Evaluated"
    /\ perm.permutation_product_eval = 1
    /\ perm.permutation_product_next_eval = 1
    /\ \A i \in 1 .. Len(perm.permutation_evals) :
          perm.permutation_evals[i] = Mul(Pow(DELTA, i - 1), pargs.x)

\* ------------------------------------------------------- vanishing prover

\* The domain has at most MaxN elements.
MaxN == 2
\* The quotient h(X) has at most MaxCoeffs coefficients: it is the quotient of
\* a polynomial of n * d coefficients, where n * (d - 1) <= MaxCoeffs.
MaxCoeffs == 4
\* The values C::Scalar::rand() may return.
RandElems == {1, 2}

RECURSIVE EvalFrom(_, _, _)
\* arithmetic::eval_polynomial: Horner's rule from the highest coefficient.
EvalFrom(poly, i, x) ==
    IF i = 0 THEN 0 ELSE Add(Mul(EvalFrom(poly, i - 1, x), x), poly[Len(poly) - i + 1])
EvalPolynomial(poly, x) == EvalFrom(poly, Len(poly), x)

\* Params::commit(poly, blind): a binding commitment, so the pair itself.
Commit(poly, blind) == [poly |-> poly, blind |-> blind]
NoPoint == Commit(<< >>, 0)

\* One write to the transcript: a point or a scalar, and what it is.
MkWrite(kind, what, piece, point, scalar, ok) ==
    [kind |-> kind, what |-> what, piece |-> piece, point |-> point, scalar |-> scalar,
     ok |-> ok]

VanArgument ==
    [state |-> "Argument", random_poly |-> << >>, random_blind |-> 0,
     h_pieces |-> << >>, h_blinds |-> << >>, h_poly |-> << >>, h_blind |-> 0]
VanError == [VanArgument EXCEPT !.state = "TranscriptError"]

\* No division has been made yet.
NoQuotient == [h_poly |-> << >>, remainder |-> << >>]

\* construct has folded nothing.
NoFold ==
    [gate_expressions |-> << >>, custom_expressions |-> << >>, l_cover |-> << >>,
     l_last |-> << >>, y |-> 0, folded |-> FALSE, h_poly |-> << >>]

InitVanishing ==
    /\ domain_n \in 1 .. MaxN
    /\ written = << >>
    /\ van = VanArgument
    /\ quotient = NoQuotient
    /\ challenge = << >>
    /\ fold = NoFold

\* Argument::commit
VanCommit(random_poly, random_blind, fail) ==
    /\ van.state = "Argument"
    /\ written' = Append(written,
                         MkWrite("point", "random_commitment", 0,
                                 Commit(random_poly, random_blind), 0, fail = 0))
    /\ van' = IF fail = 0
              THEN [VanArgument EXCEPT !.state = "Committed",
                                       !.random_poly = random_poly,
                                       !.random_blind = random_blind]
              ELSE VanError
    /\ UNCHANGED <<domain_n, quotient, challenge, fold, layoutVars, permVars>>

RECURSIVE DivideFrom(_, _, _, _)
\* Long division of the coefficients a by t(X) = X^n - 1, from the coefficient
\* of X^(i-1) down: the coefficient becomes the quotient's coefficient of
\* X^(i-1-n) and is added to the coefficient n places below.
DivideFrom(a, q, i, n) ==
    IF i <= n THEN [h_poly |-> q, remainder |-> SubSeq(a, 1, n)]
    ELSE DivideFrom([a EXCEPT ![i - n] = Add(a[i - n], a[i])],
                    [q EXCEPT ![i - n] = a[i]], i - 1, n)

\* domain.divide_by_vanishing_poly, then domain.extended_to_coeff: the
\* coefficients of the quotient of h_poly by t(X) = X^n - 1, where h_poly has
\* the n * d coefficients of a polynomial over the extended domain; what the
\* division leaves is not part of the quotient.
DivideByVanishingPoly(h_poly, n) ==
    DivideFrom(h_poly, [i \in 1 .. Len(h_poly) - n |-> 0], Len(h_poly), n)

\* The chunks but the last.
ChunksButLast(h, n) ==
    [i \in 1 .. (Len(h) \div n) - 1 |-> SubSeq(h, (i - 1) * n + 1, i * n)]

\* `h_poly.chunks_exact(params.n)`: the leading chunks of exactly n elements.
ChunksExact(h, n) ==
    [i \in 1 .. (Len(h) \div n) |-> SubSeq(h, (i - 1) * n + 1, i * n)]

\* The loop going on after the write that fails.
PieceWritesPastFailure(h_pieces, h_blinds, fail) ==
    [i \in 1 .. Len(h_pieces) |->
        MkWrite("point", "h_commitment", i - 1, Commit(h_pieces[i], h_blinds[i]), 0,
                i # fail)]

\* The commitments written from the last piece to the first.
PieceWritesReversed(h_pieces, h_blinds, fail) ==
    LET n == IF fail = 0 THEN Len(h_pieces) ELSE fail
        m == Len(h_pieces)
    IN  [i \in 1 .. n |->
            MkWrite("point", "h_commitment", m - i,
                    Commit(h_pieces[m - i + 1], h_blinds[m - i + 1]), 0, i # fail)]

\* The write_point calls of construct, one per commitment in order, stopping
\* after the call number `fail` (which returns an error).
PieceWrites(h_pieces, h_blinds, fail) ==
    LET n == IF fail = 0 THEN Len(h_pieces) ELSE fail
    IN  [i \in 1 .. n |->
            MkWrite("point", "h_commitment", i - 1, Commit(h_pieces[i], h_blinds[i]), 0,
                    i # fail)]

\* Committed::construct, from the folded accumulator h_poly on; one blind is
\* drawn for every piece.
Construct(h_poly, fail) ==
    /\ van.state = "Committed"
    /\ quotient' = DivideByVanishingPoly(h_poly, domain_n)
    /\ challenge' = challenge
    /\ LET h_pieces == ChunksExact(quotient'.h_poly, domain_n)
       IN  /\ fail <= Len(h_pieces)
           /\ \E h_blinds \in [1 .. Len(h_pieces) -> RandElems] :
                 /\ written' = written \o PieceWrites(h_pieces, h_blinds, fail)
                 /\ van' = IF fail = 0
                           THEN [van EXCEPT !.state = "Constructed",
                                            !.h_pieces = h_pieces, !.h_blinds = h_blinds]
                           ELSE VanError
    /\ UNCHANGED <<domain_n, fold, layoutVars, permVars>>

\* Polynomial * scalar and Polynomial + Polynomial, coefficient by coefficient.
Scale(poly, k) == [i \in 1 .. Len(poly) |-> Mul(poly[i], k)]
PolyAdd(a, b) == [i \in 1 .. Len(a) |-> Add(a[i], b[i])]
\* domain.empty_coeff()
EmptyCoeff(n) == [i \in 1 .. n |-> 0]

RECURSIVE FoldPiecesForward(_, _, _, _)
\* The fold without `.rev()`: the pieces taken from the first to the last.
FoldPiecesForward(h_pieces, i, xn, n) ==
    IF i > Len(h_pieces) THEN EmptyCoeff(n)
    ELSE PolyAdd(Scale(FoldPiecesForward(h_pieces, i + 1, xn, n), xn),
                 h_pieces[Len(h_pieces) - i + 1])

RECURSIVE FoldPieces(_, _, _, _)
\* `.iter().rev().fold(empty_coeff, |acc, eval| acc * xn + eval)` over the
\* first i pieces.
FoldPieces(h_pieces, i, xn, n) ==
    IF i > Len(h_pieces) THEN EmptyCoeff(n)
    ELSE PolyAdd(Scale(FoldPieces(h_pieces, i + 1, xn, n), xn), h_pieces[i])

RECURSIVE FoldBlinds(_, _, _)
FoldBlinds(h_blinds, i, xn) ==
    IF i > Len(h_blinds) THEN 0
    ELSE Add(Mul(FoldBlinds(h_blinds, i + 1, xn), xn), h_blinds[i])

\* Constructed::evaluate
VanEvaluate(x, xn, fail) ==
    /\ van.state = "Constructed"
    /\ challenge' = <<x>>
    /\ quotient' = quotient
    /\ written' = Append(written,
                         MkWrite("scalar", "random_eval", 0, NoPoint,
                                 EvalPolynomial(van.random_poly, x), fail = 0))
    /\ van' = IF fail = 0
              THEN [van EXCEPT !.state = "Evaluated",
                               !.h_pieces = << >>, !.h_blinds = << >>,
                               !.h_poly = FoldPieces(van.h_pieces, 1, xn, domain_n),
                               !.h_blind = FoldBlinds(van.h_blinds, 1, xn)]
              ELSE VanError
    /\ UNCHANGED <<domain_n, fold, layoutVars, permVars>>

\* ------------------------------------------- vanishing prover: the folding

\* construct folds at most MaxExprs gate expressions and MaxExprs custom
\* expressions.
MaxExprs == 2

\* Polynomials over the extended domain, by their values on its points.
ExtendedPolys == {<<0, 1>>, <<1, 2>>, <<2, 2>>}
\* l_cover and l_last over the extended domain.
MaskChoices == {<<<<0, 0>>, <<0, 0>>>>, <<<<1, 0>>, <<0, 1>>>>, <<<<0, 2>>, <<0, 0>>>>}
\* The challenge y.
YChoices == {1, 2}

\* domain.empty_extended()
EmptyExtended == [i \in 1 .. 2 |-> 0]
\* Polynomial * &Polynomial over the extended domain: point by point.
PolyMul(a, b) == [i \in 1 .. Len(a) |-> Mul(a[i], b[i])]
\* Polynomial::one_minus
OneMinus(a) == [i \in 1 .. Len(a) |-> Sub(1, a[i])]

RECURSIVE FoldExpressions(_, _, _, _)
\* `.fold(h_poly, |h_poly, v| h_poly * *y + &v)` from the i-th expression on.
FoldExpressions(exprs, i, h_poly, y) ==
    IF i > Len(exprs) THEN h_poly
    ELSE FoldExpressions(exprs, i + 1, PolyAdd(Scale(h_poly, y), exprs[i]), y)

\* The mask applied after the custom expressions are folded in.
AccumulateMaskLast(gate_expressions, custom_expressions, l_cover, l_last, y) ==
    LET gates   == FoldExpressions(gate_expressions, 1, EmptyExtended, y)
        customs == FoldExpressions(custom_expressions, 1, gates, y)
    IN  PolyMul(customs, OneMinus(PolyAdd(l_cover, l_last)))

\* The first three statements of construct: the gates folded, the result
\* multiplied by 1 - (l_cover + l_last), the custom expressions folded in.
Accumulate(gate_expressions, custom_expressions, l_cover, l_last, y) ==
    LET gates  == FoldExpressions(gate_expressions, 1, EmptyExtended, y)
        masked == PolyMul(gates, OneMinus(PolyAdd(l_cover, l_last)))
    IN  FoldExpressions(custom_expressions, 1, masked, y)

\* construct is called on a Committed with the expressions of a circuit.
InitFold ==
    /\ domain_n = 1
    /\ written = <<MkWrite("point", "random_commitment", 0, Commit(<<1>>, 1), 0, TRUE)>>
    /\ van = [VanArgument EXCEPT !.state = "Committed", !.random_poly = <<1>>,
                                 !.random_blind = 1]
    /\ quotient = NoQuotient
    /\ challenge = << >>
    /\ \E gates \in SeqsUpTo(ExtendedPolys, MaxExprs),
          customs \in SeqsUpTo(ExtendedPolys, MaxExprs),
          mask \in MaskChoices, y \in YChoices :
          fold = [gate_expressions |-> gates, custom_expressions |-> customs,
                  l_cover |-> mask[1], l_last |-> mask[2], y |-> y,
                  folded |-> FALSE, h_poly |-> << >>]

\* Committed::construct, up to the accumulator that is divided by t(X).
ConstructFold ==
    /\ van.state = "Committed"
    /\ ~ fold.folded
    /\ fold' = [fold EXCEPT !.folded = TRUE,
                            !.h_poly = Accumulate(fold.gate_expressions,
                                                  fold.custom_expressions,
                                                  fold.l_cover, fold.l_last, fold.y)]
    /\ UNCHANGED <<domain_n, written, van, quotient, challenge, layoutVars, permVars>>

NextFold == ConstructFold

NextVanishing ==
    \/ \E random_poly \in [1 .. domain_n -> RandElems], random_blind \in RandElems,
          fail \in FailChoices :
          VanCommit(random_poly, random_blind, fail)
    \/ /\ van.state = "Committed"
       /\ \E d \in 1 .. (MaxCoeffs \div domain_n) + 1 :
             \E h_poly \in [1 .. domain_n * d -> FieldElems], fail \in FailChoices :
                Construct(h_poly, fail)
    \/ \E x \in FieldElems, fail \in FailChoices : VanEvaluate(x, Pow(x, domain_n), fail)

\* ------------------------------------------------------- specifications

\* The permutation verifier before its run, on an empty proof.
PermIdle ==
    /\ proof = << >> /\ ncommit = 0 /\ reads = << >> /\ perm = PermArgument
    /\ NotCalled
\* The vanishing prover before its run.
VanishingIdle ==
    /\ domain_n = 1 /\ written = << >> /\ van = VanArgument
    /\ quotient = NoQuotient /\ challenge = << >> /\ fold = NoFold

\* One layouter, on which regions are assigned.
Init == InitLayout /\ PermIdle /\ VanishingIdle
Spec == Init /\ [][NextLayout]_vars

\* One layouter with constants columns, on which regions are assigned whose
\* closures address cells in every way, and instance constraints are made
\* between them.
AddressInit == Init /\ constants # << >>
AddressSpec == AddressInit /\ [][NextAddress]_vars

\* One layouter, on which lookup tables are assigned.
TableSpec == Init /\ [][NextTable]_vars

\* One run of the permutation verifier over a proof.
PermInit == InitLayout /\ constants = << >> /\ InitPerm /\ VanishingIdle
PermSpec == PermInit /\ [][NextPerm]_vars

\* One run of the vanishing prover.
VanishingInit == InitLayout /\ constants = << >> /\ PermIdle /\ InitVanishing
VanishingSpec == VanishingInit /\ [][NextVanishing]_vars

\* One transcript: either the verifier reads a proof from it, or the prover
\* writes to it.
VerifierRuns == written = << >> /\ van = VanArgument
ProverRuns == proof = << >> /\ ncommit = 0 /\ reads = << >> /\ perm = PermArgument
TranscriptInit ==
    /\ InitLayout /\ constants = << >>
    /\ \/ InitPerm /\ VanishingIdle
       \/ PermIdle /\ InitVanishing
TranscriptNext ==
    \/ VerifierRuns /\ NextPerm
    \/ ProverRuns /\ NextVanishing
TranscriptSpec == TranscriptInit /\ [][TranscriptNext]_vars

\* The vanishing prover folding the expressions of a circuit.
FoldInit == InitLayout /\ constants = << >> /\ PermIdle /\ InitFold
FoldSpec == FoldInit /\ [][NextFold]_vars

\* The permutation verifier after evaluate: expressions, then queries.
ExpressionsInit == InitLayout /\ constants = << >> /\ InitExpressions /\ VanishingIdle
ExpressionsSpec == ExpressionsInit /\ [][NextExpressions]_vars

\* ------------------------------------------------------- properties: regions

\* C1: no (column, row) pair is claimed by two different regions, where a
\* region placed at start s with row count r claims the rows s .. s + r - 1 on
\* each column of its shape.
RegionsNeverOverlap ==
    \A i, j \in 1 .. Len(regions) :
        i # j =>
          \A c \in shapes[i].columns \cap shapes[j].columns :
             (regions[i] .. regions[i] + shapes[i].row_count - 1)
                \cap (regions[j] .. regions[j] + shapes[j].row_count - 1) = {}

\* Three regions have been assigned with success, and the first two have a
\* column in common.
RegionsNeverOverlapWitness ==
    /\ Len(regions) = 3
    /\ pc = "idle"
    /\ ret = "Ok"
    /\ shapes[1].columns \cap shapes[2].columns # {}
    /\ shapes[2].columns \cap shapes[3].columns # {}

\* C2: the start row of a new region is the maximum, over the columns of the
\* probed shape, of the column's recorded first free row, where a column never
\* used counts as 0 and a region with no column starts at row 0; and two regions
\* of 3 and 2 rows on the same single column, assigned first and second with
\* nothing else written to that column, start at rows 0 and 3.
RegionStartIsMaxFirstFree ==
    /\ [](\A c \in AdviceColumns \cup FixedColumns :
             (/\ Len(regions) >= 2
              /\ shapes[1].columns = {c} /\ shapes[1].row_count = 3
              /\ shapes[2].columns = {c} /\ shapes[2].row_count = 2
              /\ (constants # << >> /\ constants[1] = c => flushes = << >>))
             => (regions[1] = 0 /\ regions[2] = 3))
    /\ [][Len(regions') = Len(regions) + 1 =>
             LET start == regions'[Len(regions')]
                 free(c) == IF c \in DOMAIN columns THEN columns[c] ELSE 0
             IN  /\ \A c \in shape.columns : start >= free(c)
                 /\ \/ \E c \in shape.columns : start = free(c)
                    \/ start = 0
                 /\ Len(regions') = Len(shapes') /\ shapes'[Len(shapes')] = shape
          ]_vars

\* A region of 3 rows and a region of 2 rows on the advice column alone have
\* been placed at rows 0 and 3, and a third region on two columns whose first
\* free rows differ has been placed at the larger of the two.
RegionStartIsMaxFirstFreeWitness ==
    /\ Len(regions) = 3
    /\ shapes[1].columns = {"a0"} /\ shapes[1].row_count = 3
    /\ shapes[2].columns = {"a0"} /\ shapes[2].row_count = 2
    /\ shapes[3].columns = {"a0", "f0"}
    /\ regions = <<0, 3, 5>>

\* C3, as stated: region start rows are non-decreasing in declaration order.
StartRowsNonDecreasing ==
    \A i, j \in 1 .. Len(regions) : i < j => regions[i] <= regions[j]

\* C3, amended: start rows are non-decreasing in declaration order among
\* regions that share a column: a region declared later starts at or after the
\* end row (start + row count) of every earlier region whose shape has a column
\* in common with its own.
StartRowsOrderedOnSharedColumns ==
    \A i, j \in 1 .. Len(regions) :
        (i < j /\ shapes[i].columns \cap shapes[j].columns # {})
           => regions[j] >= regions[i] + shapes[i].row_count

\* The third region starts below the second, with which it shares no column,
\* while the second follows the first on a shared column.
StartRowsOrderedOnSharedColumnsWitness ==
    /\ Len(regions) = 3
    /\ shapes[1].columns \cap shapes[2].columns # {}
    /\ shapes[2].columns \cap shapes[3].columns = {}
    /\ shapes[3].columns # {}
    /\ regions[2] > regions[1]
    /\ regions[3] < regions[2]

\* C4: on a layouter with no constants column, an assign_region call whose
\* closure returned Ok from its second run returns NotEnoughColumnsForConstants
\* when that run asked for a constant, and returns Ok when it asked for none.
NotEnoughColumnsIffRequested ==
    (/\ constants = << >>
     /\ \E k \in 1 .. Len(cs) : cs[k] = ExitRegion)
    => LET requested ==
               \E k \in 1 .. Len(prog) :
                  prog[k].op \in {"assign_advice_from_constant", "constrain_constant"}
       IN  /\ requested => (ret = "NotEnoughColumnsForConstants" /\ pc = "aborted")
           /\ ~requested => (ret = "Ok" /\ pc = "idle")
           /\ requested <=> pending # << >>

\* A region that assigns an advice cell from a constant on a layouter with no
\* constants column: the call has returned NotEnoughColumnsForConstants.
NotEnoughColumnsIffRequestedWitness ==
    /\ constants = << >>
    /\ Len(regions) = 2
    /\ \E k \in 1 .. Len(cs) : cs[k] = ExitRegion
    /\ \E k \in 1 .. Len(prog) : prog[k].op = "assign_advice_from_constant"
    /\ ret = "NotEnoughColumnsForConstants"

\* C5: when a constants column is configured and assign_region returns Ok, the
\* calls made after exit_region are, for the k-th constant request of the
\* region (k from 0, in the order the closure made them), assign_fixed of the
\* constant in constants[0] at row f + k and then the copy between that cell
\* and the absolute row of the target cell, where f is the first free row of
\* constants[0] when flushing starts; no other constants column is used.
ConstantsFlushedInRequestOrder ==
    [][(pc = "probing" /\ pc' = "idle" /\ constants # << >>) =>
          LET col == constants[1]
              IsRequest(o) ==
                  o.op \in {"assign_advice_from_constant", "constrain_constant"}
              reqs == SelectSeq(prog, IsRequest)
              m == Len(reqs)
              start == regions'[Len(regions')]
              f == IF col \in shape.columns THEN start + shape.row_count
                   ELSE IF col \in DOMAIN columns THEN columns[col] ELSE 0
              target(o) == IF o.op = "constrain_constant" THEN o.cell
                           ELSE MkCell(Len(regions), o.offset, o.column)
              base == Len(cs') - 2 * m
          IN  /\ base >= 1
              /\ cs'[base] = ExitRegion
              /\ \A k \in 1 .. base - 1 : cs'[k] # ExitRegion
              /\ \A k \in 0 .. m - 1 :
                    /\ cs'[base + 2 * k + 1] =
                          MkCall("assign_fixed", col, f + k, "-", -1, reqs[k + 1].constant, TRUE)
                    /\ cs'[base + 2 * k + 2] =
                          MkCall("copy", col, f + k, target(reqs[k + 1]).column,
                                 regions'[target(reqs[k + 1]).region_index + 1]
                                    + target(reqs[k + 1]).row_offset,
                                 0, TRUE)
              /\ \A k \in 2 .. Len(constants) :
                    /\ constants[k] \notin DOMAIN columns'
                    /\ \A n \in 1 .. Len(cs') :
                          cs'[n].col # constants[k] /\ cs'[n].col2 # constants[k]
       ]_vars

\* A region has flushed two constants, the second for a cell of an earlier
\* region, into a constants column whose first rows were already in use.
ConstantsFlushedInRequestOrderWitness ==
    /\ constants # << >>
    /\ pc = "idle"
    /\ ret = "Ok"
    /\ Len(pending) = 2
    /\ pending[2].cell.region_index < Len(regions) - 1
    /\ Len(cs) >= 4
    /\ cs[Len(cs)].call = "copy"
    /\ cs[Len(cs)].row >= 3

TableComplete ==
    LET fills == {k \in 1 .. Len(cs) : cs[k].call = "fill_from_row"}
    IN  /\ (pc = "idle" /\ ret = "Ok") =>
              \E L \in 0 .. MaxTableOffset + 1 :
                 /\ \A c \in DOMAIN table :
                       /\ Len(table[c].assigned) = L
                       /\ \A i \in 1 .. L : table[c].assigned[i]
                       /\ Cardinality({k \in fills : cs[k].col = c}) = 1
                 /\ \A k \in fills :
                       /\ cs[k].col \in DOMAIN table
                       /\ cs[k].row = L
                       /\ cs[k].val = table[cs[k].col].default[1]
                       /\ cs[k].ok
        /\ (/\ pc \in {"idle", "aborted"}
            /\ \E c, d \in DOMAIN table : Len(table[c].assigned) # Len(table[d].assigned))
           => (ret # "Ok" /\ fills = {})

\* assign_table has returned Ok for a table of two columns and three rows
\* whose defaults differ.
TableCompleteWitness ==
    /\ pc = "idle"
    /\ ret = "Ok"
    /\ DOMAIN table = {"t0", "t1"}
    /\ Len(table["t0"].assigned) = 3
    /\ table["t0"].default # table["t1"].default

\* C8: table_columns only grows; the columns of an assign_table call that got
\* past the check of the lengths are in table_columns from then on, each once;
\* and a table under construction never holds a column that an earlier
\* assign_table call has recorded, the assignment of such a column being an
\* error.
TableColumnsReserved ==
    /\ [](/\ (pc = "idle" /\ ret = "Ok") => DOMAIN table \subseteq Range(table_columns)
          /\ pc = "in_table" => DOMAIN table \cap Range(table_columns) = {}
          /\ ret = "Err(TableError::UsedColumn)" => table_columns # << >>
          /\ \A i, j \in 1 .. Len(table_columns) :
                table_columns[i] = table_columns[j] => i = j)
    /\ [][/\ Len(table_columns') >= Len(table_columns)
          /\ SubSeq(table_columns', 1, Len(table_columns)) = table_columns
          /\ (pc = "in_table" /\ table' # table) =>
                DOMAIN table' \cap Range(table_columns) = {}
         ]_vars

\* A first table has been assigned, and a second assign_table call that used
\* a column of the first has returned the error.
TableColumnsReservedWitness ==
    /\ table_columns # << >>
    /\ ret = "Err(TableError::UsedColumn)"
    /\ pc = "aborted"

\* ------------------------------------------------------- properties: transcripts

\* C9: read_product_commitment makes exactly one transcript read, of a point;
\* Committed::evaluate applies to the Committed it produced and to nothing
\* else, leaves no Committed behind, and reads the product evaluation, the
\* next-row product evaluation and one scalar per commitment of the verifying
\* key, in that order: a verifier that reaches Evaluated has read 1 point and
\* then 2 + k scalars, k the number of permuted columns, and nothing else.
PermutationReadOrder ==
    /\ [](/\ perm.state = "Argument" => reads = << >>
          /\ perm.state = "Committed" => reads = <<MkRead("point", TRUE)>>
          /\ perm.state = "Evaluated" =>
                /\ reads = <<MkRead("point", TRUE)>>
                              \o [i \in 1 .. 2 + ncommit |-> MkRead("scalar", TRUE)]
                /\ Len(perm.permutation_evals) = ncommit)
    /\ [][/\ (perm.state = "Argument" /\ perm' # perm) =>
                /\ Len(reads') = 1 /\ reads'[1].kind = "point"
                /\ perm'.state \in {"Committed", "TranscriptError"}
                /\ perm'.state = "Committed" =>
                      /\ proof # << >> /\ proof[1].kind = "point"
                      /\ perm'.permutation_product_commitment = proof[1].val
                      /\ proof' = Tail(proof)
          /\ (perm.state = "Committed" /\ perm' # perm) =>
                /\ perm'.state \in {"Evaluated", "TranscriptError"}
                /\ Len(reads') <= Len(reads) + 2 + ncommit
                /\ SubSeq(reads', 1, Len(reads)) = reads
                /\ \A i \in Len(reads) + 1 .. Len(reads') : reads'[i].kind = "scalar"
          /\ (perm'.state = "Evaluated" /\ perm.state # "Evaluated") =>
                /\ perm.state = "Committed"
                /\ Len(proof) >= 2 + ncommit
                /\ perm'.permutation_product_commitment = perm.permutation_product_commitment
                /\ perm'.permutation_product_eval = proof[1].val
                /\ perm'.permutation_product_next_eval = proof[2].val
                /\ \A i \in 1 .. ncommit : perm'.permutation_evals[i] = proof[2 + i].val
                /\ proof' = SubSeq(proof, 3 + ncommit, Len(proof))
          /\ perm.state \in {"Evaluated", "TranscriptError"} => reads' = reads
         ]_vars

\* The verifier has evaluated a proof for two permuted columns in which the
\* product evaluation and the next-row product evaluation differ.
PermutationReadOrderWitness ==
    /\ perm.state = "Evaluated"
    /\ ncommit = 2
    /\ Len(reads) = 5
    /\ perm.permutation_product_eval # perm.permutation_product_next_eval
    /\ perm.permutation_evals[1] # perm.permutation_evals[2]

\* C10: commit, construct and evaluate run in that order, each on the state
\* the one before produced; the transcript receives the commitment to the
\* masking polynomial, then the commitment to each piece of h(X) from piece 0
\* on, then the evaluation of the masking polynomial at x, and no other scalar:
\* the evaluation of h(X) is never written.
VanishingWriteOrder ==
    /\ [](LET random_commitment ==
                  MkWrite("point", "random_commitment", 0,
                          Commit(van.random_poly, van.random_blind), 0, TRUE)
          IN
          /\ van.state = "Argument" => written = << >>
          /\ van.state = "Committed" => written = <<random_commitment>>
          /\ van.state = "Constructed" =>
                written = <<random_commitment>>
                             \o [i \in 1 .. Len(van.h_pieces) |->
                                    MkWrite("point", "h_commitment", i - 1,
                                            Commit(van.h_pieces[i], van.h_blinds[i]), 0, TRUE)]
          /\ van.state = "Evaluated" =>
                LET m == Len(written) - 2
                IN  /\ m >= 0
                    /\ written[1] = random_commitment
                    /\ \A i \in 1 .. m :
                          /\ written[1 + i].kind = "point"
                          /\ written[1 + i].what = "h_commitment"
                          /\ written[1 + i].piece = i - 1
                          /\ written[1 + i].ok
                    /\ written[m + 2].kind = "scalar"
                    /\ written[m + 2].what = "random_eval"
                    /\ written[m + 2].ok
                    /\ \E x \in FieldElems :
                          written[m + 2].scalar = EvalPolynomial(van.random_poly, x))
    /\ [][/\ van'.state = "Committed" => van.state \in {"Argument", "Committed"}
          /\ van'.state = "Constructed" => van.state \in {"Committed", "Constructed"}
          /\ van'.state = "Evaluated" => van.state \in {"Constructed", "Evaluated"}
          /\ Len(written') >= Len(written)
          /\ SubSeq(written', 1, Len(written)) = written
          /\ (van.state = "Constructed" /\ van' # van) => Len(written') = Len(written) + 1
          /\ \A i \in 1 .. Len(written') :
                written'[i].kind = "scalar" =>
                   (written'[i].what = "random_eval" /\ i = Len(written'))
         ]_vars

\* The prover has evaluated after writing the commitments to two different
\* pieces of h(X).
VanishingWriteOrderWitness ==
    /\ van.state = "Evaluated"
    /\ Len(written) = 4
    /\ written[2].point # written[3].point
    /\ written[2].piece = 0
    /\ written[3].piece = 1

\* ------------------------------------------------------- properties: the quotient

\* C11: the pieces construct makes of the quotient h, one after the other, are
\* the coefficients of h, none lost; and the polynomial evaluate folds from the
\* pieces, taken in reverse order with the multiplier x^n, has at x the value
\* h(x).
SplitAndFoldRoundTrip ==
    /\ van.state = "Constructed" =>
          /\ Len(quotient.h_poly) = Len(van.h_pieces) * domain_n
          /\ \A i \in 1 .. Len(quotient.h_poly) :
                quotient.h_poly[i] =
                   van.h_pieces[((i - 1) \div domain_n) + 1][((i - 1) % domain_n) + 1]
    /\ van.state = "Evaluated" =>
          EvalPolynomial(van.h_poly, challenge[1])
             = EvalPolynomial(quotient.h_poly, challenge[1])

\* The prover has evaluated, at a point other than 0 and 1, a quotient of two
\* pieces of two coefficients whose last coefficient is not zero.
SplitAndFoldRoundTripWitness ==
    /\ van.state = "Evaluated"
    /\ domain_n = 2
    /\ Len(quotient.h_poly) = 4
    /\ quotient.h_poly[4] # 0
    /\ quotient.h_poly[1] # quotient.h_poly[3]
    /\ challenge = <<2>>
    /\ EvalPolynomial(quotient.h_poly, 2) # 0
\* ---------------------------------------- properties: column occupancy

\* C15: the first free row recorded for a column never decreases, whatever
\* assign_region does (placement, constant flushing, an error on the way); and
\* right after a region is placed every column of its shape has the first free
\* row region_start + row_count: that is the value assign_region leaves, and
\* for the constants column the row the first constant of the region is
\* flushed to, each flushed constant then taking one more row.
ColumnOccupancyMonotone ==
    [][ /\ \A c \in DOMAIN columns : c \in DOMAIN columns' /\ columns'[c] >= columns[c]
        /\ Len(regions') > Len(regions) =>
              LET placed  == regions'[Len(regions')] + shape.row_count
                  flushed == SubSeq(flushes', Len(flushes) + 1, Len(flushes'))
              IN  \A c \in shape.columns :
                     /\ c \in DOMAIN columns'
                     /\ IF flushed # << >> /\ c = ConstantsColumn(constants)
                        THEN /\ flushed[1].row = placed
                             /\ columns'[c] >= placed
                             /\ columns'[c] <= placed + Len(flushed)
                        ELSE columns'[c] = placed ]_vars

\* Two regions on the advice column a0 and the constants column f0, each
\* with one constant: the second starts at row 3, leaves a0 at 5 and has its
\* constant flushed to row 5 of f0, which ends at 6.
ColumnOccupancyMonotoneWitness ==
    /\ pc = "idle" /\ Len(regions) = 2 /\ regions[2] = 3
    /\ shapes[2].columns = {"a0", "f0"} /\ shapes[2].row_count = 2
    /\ constants # << >> /\ ConstantsColumn(constants) = "f0"
    /\ Len(flushes) = 2 /\ flushes[2].row = 5
    /\ columns["a0"] = 5 /\ columns["f0"] = 6

\* ---------------------------------------- properties: absolute addressing

\* The rows of the cells an operation names, one pair per call it makes on the
\* constraint system when none fails: the row of the call's first cell and of
\* its second (-1 when it has none), each the start row stored for the cell's
\* region plus the cell's offset. The row of an instance column is absolute.
AddressedRows(o, regs, region_index) ==
    LET own == regs[region_index + 1] + o.offset
    IN  CASE o.op \in {"assign_advice", "assign_fixed", "enable_selector",
                       "assign_advice_from_constant"} -> <<<<own, -1>>>>
          [] o.op = "constrain_equal" ->
               <<<<regs[o.cell.region_index + 1] + o.cell.row_offset,
                   regs[o.right.region_index + 1] + o.right.row_offset>>>>
          [] o.op = "assign_advice_from_instance" ->
               <<<<o.row, -1>>, <<own, -1>>, <<own, o.row>>>>
          [] o.op = "constrain_instance" ->
               <<<<regs[o.cell.region_index + 1] + o.cell.row_offset, o.row>>>>
          [] o.op = "constrain_constant" -> << >>

RECURSIVE AddressedRowsOf(_, _, _)
AddressedRowsOf(ops, regs, region_index) ==
    IF ops = << >> THEN << >>
    ELSE AddressedRows(Head(ops), regs, region_index)
         \o AddressedRowsOf(Tail(ops), regs, region_index)

CallRows(calls) == [i \in 1 .. Len(calls) |-> <<calls[i].row, calls[i].row2>>]
IsPrefix(a, b) == Len(a) <= Len(b) /\ a = SubSeq(b, 1, Len(a))
IsCopy(call) == call.call = "copy"

\* C16: every call made on the constraint system for a cell uses the start
\* row stored for the cell's region plus the cell's offset, for the cells of
\* the region being assigned and for those of earlier regions alike, in
\* assign_advice, assign_fixed, enable_selector, the copy of constrain_equal,
\* assign_advice_from_instance, constrain_instance and the copies of constant
\* flushing; and a start row, once stored, is never changed.
AbsoluteAddressing ==
    [][ /\ Len(regions') >= Len(regions)
        /\ \A i \in 1 .. Len(regions) : regions'[i] = regions[i]
        /\ Len(regions') > Len(regions) =>
              LET exits   == {i \in 1 .. Len(cs') : cs'[i].call = "exit_region"}
                  exitAt  == IF exits = {} THEN Len(cs') + 1 ELSE CHOOSE i \in exits : TRUE
                  real    == SubSeq(cs', 2, exitAt - 1)
                  flushed == SelectSeq(SubSeq(cs', exitAt + 1, Len(cs')), IsCopy)
                  rows    == AddressedRowsOf(prog, regions', Len(regions))
              IN  /\ IsPrefix(CallRows(real), rows)
                  /\ exits # {} => CallRows(real) = rows
                  /\ \A j \in 1 .. Len(flushed) :
                        /\ flushed[j].col2 = pending'[j].cell.column
                        /\ flushed[j].row2 = regions'[pending'[j].cell.region_index + 1]
                                                + pending'[j].cell.row_offset
        /\ (pc = "idle" /\ pc' # "probing") =>
              CallRows(cs') = AddressedRowsOf(prog', regions, 0) ]_vars

\* The second region starts at row 2; its closure takes the advice cell at
\* offset 1 from an instance and constrains the first region's cell at offset
\* 1 equal to its own cell at offset 0: the copy is made between rows 1 and 2,
\* the assignment on row 3.
AbsoluteAddressingWitness ==
    /\ pc = "idle" /\ regions = <<0, 2>>
    /\ \E i \in 1 .. Len(cs) : cs[i].call = "copy" /\ cs[i].row = 1 /\ cs[i].row2 = 2
    /\ \E i \in 1 .. Len(cs) : cs[i].call = "assign_advice" /\ cs[i].row = 3

\* The division by t(X) has left something: the accumulator was not a
\* multiple of t(X).
NonExactDivision == \E i \in 1 .. Len(quotient.remainder) : quotient.remainder[i] # 0

\* C14: when the folded accumulator is not exactly divisible by t(X),
\* construct detects it: it returns no Constructed and commits no piece of a
\* truncated quotient.
UnsatisfiedSystemDetected ==
    NonExactDivision =>
        /\ van.state \notin {"Constructed", "Evaluated"}
        /\ \A i \in 1 .. Len(written) : written[i].what # "h_commitment"

\* ---------------------------------------- properties: transcript failures

\* C13: a failed transcript read (permutation verifier) or write (vanishing
\* prover) makes the operation return Error::TranscriptError with no
\* successor protocol state, and no transcript operation follows it: the
\* failed operation is the last of the log, and TranscriptError is returned
\* for nothing else.
TranscriptFailuresFatal ==
    /\ \A i \in 1 .. Len(reads) :
          ~ reads[i].ok => i = Len(reads) /\ perm = PermError
    /\ perm.state = "TranscriptError" => reads # << >> /\ ~ reads[Len(reads)].ok
    /\ \A i \in 1 .. Len(written) :
          ~ written[i].ok => i = Len(written) /\ van = VanError
    /\ van.state = "TranscriptError" => written # << >> /\ ~ written[Len(written)].ok

\* construct fails on the first of its two commitments: the second is never
\* written.
TranscriptFailuresFatalWitness ==
    /\ van = VanError
    /\ Len(quotient.h_poly) = 2 * domain_n
    /\ Len(written) = 2
    /\ written[1].ok /\ written[1].what = "random_commitment"
    /\ ~ written[2].ok /\ written[2].what = "h_commitment" /\ written[2].piece = 0

\* ---------------------------------------- properties: the permutation identity

\* C12 as stated: on a satisfying witness (the identity witness among them)
\* all three terms yielded by Evaluated::expressions are zero at the challenge
\* point.
PermutationTermsZeroAtChallenge ==
    (terms # << >> /\ (SatisfyingWitness \/ IdentityWitness)) => terms = <<0, 0, 0>>

\* C12, amended: the three terms yielded by Evaluated::expressions are zero on
\* a satisfying witness when x is a row of the domain, and at every x on the
\* identity witness (permutation evaluations delta^i * x, z(x) = z(x * omega) = 1).
PermutationTermsZero ==
    (terms # << >> /\ ((SatisfyingWitness /\ InDomain(pargs.x)) \/ IdentityWitness))
        => terms = <<0, 0, 0>>

PermutationTermsZeroWitness ==
    /\ terms = <<0, 0, 0>>
    /\ IdentityWitness
    /\ Len(pargs.columns) = 2
    /\ pargs.columns[1].column_type # pargs.columns[2].column_type
    /\ pargs.l_0 # 0 /\ pargs.beta = 2 /\ pargs.gamma # 0 /\ pargs.x = 2

\* The product of the first i elements of f.
RECURSIVE ProductOf(_, _)
ProductOf(f, i) == IF i = 0 THEN 1 ELSE Mul(ProductOf(f, i - 1), f[i])

\* value_i: the evaluation of column i, from the list of the column's type.
ColumnValue(i) ==
    LET column == pargs.columns[i]
        lists == [Advice |-> pargs.advice_evals, Fixed |-> pargs.fixed_evals,
                  Instance |-> pargs.instance_evals]
    IN  lists[column.column_type][column.index]

\* C17: Evaluated::expressions yields exactly three terms, in this order:
\* l_0 * (1 - z(x)); l_last * (1 - z(x)); and
\* (1 - (l_cover + l_last)) * (z(x*omega) * PROD_i (value_i + beta * permuted_i + gamma)
\*                             - z(x) * PROD_i (value_i + delta^i * beta * x + gamma)),
\* i over the columns in order from delta^0, value_i from the list of column
\* i's type.
ExpressionsAreTheThreeTerms ==
    terms # << >> =>
        LET k == Len(pargs.columns)
            z == perm.permutation_product_eval
            z_next == perm.permutation_product_next_eval
            left == [i \in 1 .. k |->
                        (ColumnValue(i) + pargs.beta * perm.permutation_evals[i]
                         + pargs.gamma) % Modulus]
            right == [i \in 1 .. k |->
                        (ColumnValue(i) + Pow(DELTA, i - 1) * pargs.beta * pargs.x
                         + pargs.gamma) % Modulus]
        IN  terms = <<(pargs.l_0 * (1 + Modulus - z)) % Modulus,
                      (pargs.l_last * (1 + Modulus - z)) % Modulus,
                      ((1 + 2 * Modulus - (pargs.l_cover + pargs.l_last))
                       * (z_next * ProductOf(left, k)
                          + Modulus * Modulus - z * ProductOf(right, k))) % Modulus>>

ExpressionsAreTheThreeTermsWitness ==
    /\ Len(terms) = 3 /\ terms[1] # 0 /\ terms[2] # 0 /\ terms[3] # 0
    /\ terms[1] # terms[2]
    /\ Len(pargs.columns) = 2
    /\ pargs.columns[1].column_type = "Instance" /\ pargs.columns[2].column_type = "Fixed"
    /\ pargs.x # 0
    /\ perm.permutation_evals[1] # perm.permutation_evals[2]

\* C18: Evaluated::queries yields the product commitment opened at x with the
\* product evaluation, the same commitment opened at x * omega with the
\* next-row product evaluation, then each permutation commitment of the key,
\* in key order, opened at x with the evaluation read for it: 2 + k queries.
QueriesInOrder ==
    queries # << >> =>
        LET k == Len(pargs.commitments)
        IN  /\ Len(queries) = 2 + k
            /\ queries[1] = [commitment |-> perm.permutation_product_commitment,
                             point |-> pargs.x,
                             eval |-> perm.permutation_product_eval]
            /\ queries[2] = [commitment |-> perm.permutation_product_commitment,
                             point |-> (pargs.x * OMEGA) % Modulus,
                             eval |-> perm.permutation_product_next_eval]
            /\ \A i \in 1 .. k :
                  queries[2 + i] = [commitment |-> pargs.commitments[i],
                                    point |-> pargs.x,
                                    eval |-> perm.permutation_evals[i]]

QueriesInOrderWitness ==
    /\ Len(queries) = 4
    /\ pargs.x = 1
    /\ queries[1].eval # queries[2].eval
    /\ queries[1].point # queries[2].point
    /\ queries[3].commitment # queries[4].commitment
    /\ queries[3].eval # queries[4].eval

\* ---------------------------------------- properties: pieces and folding

Ceil(a, b) == (a + b - 1) \div b

\* C19: the number of h pieces Committed::construct produces, and of piece
\* commitments it writes to the transcript, is ceil(coefficient-count / n) for
\* the coefficient vector of the quotient and the domain size n.
PieceCount ==
    van.state = "Constructed" =>
        /\ Len(van.h_pieces) = Ceil(Len(quotient.h_poly), domain_n)
        /\ Cardinality({i \in 1 .. Len(written) : written[i].what = "h_commitment"})
              = Ceil(Len(quotient.h_poly), domain_n)

PieceCountWitness ==
    /\ van.state = "Constructed"
    /\ domain_n = 2 /\ Len(quotient.h_poly) = 4
    /\ Len(van.h_pieces) = 2
    /\ Len(written) = 3 /\ written[3].what = "h_commitment" /\ written[3].ok

RECURSIVE HornerSum(_, _, _, _)
\* e_1 * y^(i-1) + ... + e_i at the point p, for the first i of the
\* expressions e.
HornerSum(e, i, y, p) ==
    IF i = 0 THEN 0
    ELSE (HornerSum(e, i - 1, y, p) + e[i][p] * Pow(y, Len(e) - i)) % Modulus

\* C20: the accumulator construct divides by t(X) is
\* ((g_1 * y^(k-1) + ... + g_k) * (1 - (l_cover + l_last))) * y^m
\*   + c_1 * y^(m-1) + ... + c_m
\* for the gate expressions g and the custom expressions c in iteration order:
\* the gates folded in y and masked, the custom expressions folded in
\* afterwards and not masked.
ConstraintFolding ==
    fold.folded =>
        LET g == fold.gate_expressions
            c == fold.custom_expressions
        IN  /\ Len(fold.h_poly) = Len(EmptyExtended)
            /\ \A p \in 1 .. Len(fold.h_poly) :
                  fold.h_poly[p] =
                     (HornerSum(g, Len(g), fold.y, p)
                        * (1 + 2 * Modulus - (fold.l_cover[p] + fold.l_last[p]))
                        * Pow(fold.y, Len(c))
                      + HornerSum(c, Len(c), fold.y, p)) % Modulus

ConstraintFoldingWitness ==
    /\ fold.folded
    /\ Len(fold.gate_expressions) = 2 /\ Len(fold.custom_expressions) = 2
    /\ fold.gate_expressions[1] # fold.gate_expressions[2]
    /\ fold.custom_expressions[1] # fold.custom_expressions[2]
    /\ fold.y = 2
    /\ fold.l_last[2] # 0
    /\ fold.h_poly[2] # 0

\* ---------------------------------------- properties: the two passes

\* The calls an operation of the closure makes on the constraint system when
\* run against the real region.
CallKinds(o) ==
    CASE o.op \in {"assign_advice", "assign_advice_from_constant"} -> <<"assign_advice">>
      [] o.op = "assign_fixed" -> <<"assign_fixed">>
      [] o.op = "enable_selector" -> <<"enable_selector">>
      [] o.op = "constrain_equal" -> <<"copy">>
      [] o.op = "assign_advice_from_instance" -> <<"query_instance", "assign_advice", "copy">>
      [] o.op = "constrain_constant" -> << >>

RECURSIVE CallKindsOf(_)
CallKindsOf(ops) ==
    IF ops = << >> THEN << >> ELSE CallKinds(Head(ops)) \o CallKindsOf(Tail(ops))

\* C21: in a successful assign_region the closure runs exactly twice, against
\* the shape and then against the region; no call reaches the constraint
\* system while the shape is probed; the constraint system then sees
\* enter_region, the cell writes and copies of one run of the closure,
\* exit_region, and only then the (assign_fixed, copy) pairs of the flush;
\* enter_region and exit_region are called once each.
AssignRegionCallOrder ==
    /\ [](pc = "probing" => cs = << >> /\ runs = <<"shape">>)
    /\ [][ (pc = "probing" /\ ret' = "Ok") =>
              LET exits  == {i \in 1 .. Len(cs') : cs'[i].call = "exit_region"}
                  enters == {i \in 1 .. Len(cs') : cs'[i].call = "enter_region"}
              IN  /\ runs' = <<"shape", "region">>
                  /\ enters = {1}
                  /\ Cardinality(exits) = 1
                  /\ LET exitAt == CHOOSE i \in exits : TRUE
                         real   == SubSeq(cs', 2, exitAt - 1)
                         flush  == SubSeq(cs', exitAt + 1, Len(cs'))
                     IN  /\ [i \in 1 .. Len(real) |-> real[i].call] = CallKindsOf(prog)
                         /\ Len(flush) = 2 * Len(pending')
                         /\ \A j \in 1 .. Len(pending') :
                               /\ flush[2 * j - 1].call = "assign_fixed"
                               /\ flush[2 * j - 1].val = pending'[j].constant
                               /\ flush[2 * j].call = "copy"
                               /\ flush[2 * j].row = flush[2 * j - 1].row ]_vars

\* A region whose closure copies from an earlier region and asks for a
\* constant: enter_region, the copy, exit_region, then the pair of the flush.
AssignRegionCallOrderWitness ==
    /\ pc = "idle" /\ ret = "Ok" /\ runs = <<"shape", "region">>
    /\ Len(cs) = 5
    /\ cs[1].call = "enter_region" /\ cs[2].call = "copy" /\ cs[3].call = "exit_region"
    /\ cs[4].call = "assign_fixed" /\ cs[5].call = "copy"

\* C22: when the closure fails while the shape is probed, assign_region
\* returns the error and leaves the layouter as it was before the call: from
\* the entry of the call to the return of the error the region list, the
\* column occupancy and table_columns keep their values, and no call
\* (enter_region, assignment, copy) is made on the constraint system.
ProbeFailureLeavesLayouterUnchanged ==
    [][ (pc' = "probing" \/ (pc = "probing" /\ ret' = "Err(closure)")) =>
            /\ regions' = regions
            /\ columns' = columns
            /\ table_columns' = table_columns
            /\ constants' = constants
            /\ cs' = << >>
            /\ (ret' = "Err(closure)" => pc' = "aborted" /\ runs' = <<"shape">>) ]_vars

\* The closure of the second region fails after it has touched a column that
\* the first region occupies: one region, its columns as they were.
ProbeFailureLeavesLayouterUnchangedWitness ==
    /\ pc = "aborted" /\ ret = "Err(closure)"
    /\ Len(regions) = 1 /\ Len(shapes) = 1
    /\ shape.region_index = 1 /\ shape.row_count = 3
    /\ "a0" \in shape.columns /\ "a0" \in DOMAIN columns
    /\ columns["a0"] = regions[1] + shapes[1].row_count
    /\ cs = << >>

====
